---- MODULE Spec2Model ----
(***************************************************************************)
(* Model of imtihan2.py, a Streamlit mock-test page: a login form, a      *)
(* question bank loaded from a published sheet, one question per page     *)
(* with a Next button, and a results page with per-tag aggregates.        *)
(*                                                                         *)
(* Strings that the code trims or uppercases are sequences of one-        *)
(* character strings.  A sheet cell is either such a string or NaN (what  *)
(* pandas.read_csv yields for an empty cell).                             *)
(***************************************************************************)
EXTENDS Integers, Sequences, FiniteSets, TLC

(* ------------------------------ bounds -------------------------------- *)

\* Largest number of data rows in the sheet.
MaxRows == 2

\* time.time() returns a reading in 0..MaxClock.
MaxClock == 1

Clock == 0 .. MaxClock

(* ------------------------------ strings ------------------------------- *)

Space == " "

RECURSIVE lstrip(_)
lstrip(s) ==
    IF s # << >> /\ Head(s) = Space THEN lstrip(Tail(s)) ELSE s

RECURSIVE rstrip(_)
rstrip(s) ==
    IF s # << >> /\ s[Len(s)] = Space THEN rstrip(SubSeq(s, 1, Len(s) - 1)) ELSE s

\* str.strip()
strip(s) == rstrip(lstrip(s))

upperChar(c) ==
    CASE c = "a" -> "A"
      [] c = "b" -> "B"
      [] c = "c" -> "C"
      [] c = "d" -> "D"
      [] c = "e" -> "E"
      [] OTHER -> c

\* str.upper()
upper(s) == [i \in 1 .. Len(s) |-> upperChar(s[i])]

(* ------------------------------- cells -------------------------------- *)

\* An empty cell of the sheet, as pandas reads it.
NaN == [nan |-> TRUE, s |-> << >>]

\* A cell holding the text s.
Text(s) == [nan |-> FALSE, s |-> s]

\* str(cell): the float NaN prints as "nan".
str(cell) == IF cell.nan THEN <<"n", "a", "n">> ELSE cell.s

(* ------------------------------ the bank ------------------------------ *)

required_columns ==
    { "Question ID", "Question Text", "Option A", "Option B",
      "Option C", "Option D", "Correct Answer", "Subject", "Topic",
      "Sub- Topic", "Difficulty Level", "Question Type", "Cognitive Level" }

OptionColumns == <<"Option A", "Option B", "Option C", "Option D">>

TagNames ==
    { "Subject", "Topic", "Sub- Topic", "Difficulty Level",
      "Question Type", "Cognitive Level" }

\* The four letters, chr(65 + index) for index 0..3.
chr65 == << <<"A">>, <<"B">>, <<"C">>, <<"D">> >>

\* One row of the sheet as a mapping from column name to value.
MakeRow(id, a, b, c, d, ans, subject, subtopic, level) ==
    ("Question ID" :> id) @@ ("Question Text" :> "text") @@
    ("Option A" :> a) @@ ("Option B" :> b) @@
    ("Option C" :> c) @@ ("Option D" :> d) @@
    ("Correct Answer" :> ans) @@
    ("Subject" :> subject) @@ ("Topic" :> "T") @@ ("Sub- Topic" :> subtopic) @@
    ("Difficulty Level" :> level) @@ ("Question Type" :> "MCQ") @@
    ("Cognitive Level" :> "Apply")

\* A well-formed row: Option B is padded, Option D repeats Option A and the
\* answer is padded lower case.
RowGood ==
    MakeRow(1, Text(<<"p">>), Text(<<" ", "l">>), Text(<<"r">>), Text(<<"p">>),
            Text(<<" ", "b">>), "Geo", "Capitals", "Easy")

\* Option C is an empty cell.
RowNoOptionC ==
    MakeRow(2, Text(<<"p">>), Text(<<"l">>), NaN, Text(<<"b">>),
            Text(<<"A">>), "Geo", "Rivers", "Hard")

\* Option C is white space only.
RowBlankOptionC ==
    MakeRow(3, Text(<<"p">>), Text(<<"l">>), Text(<<" ">>), Text(<<"b">>),
            Text(<<"A">>), "Math", "Sets", "Easy")

\* The Correct Answer is not one of the four letters.
RowBadAnswer ==
    MakeRow(4, Text(<<"p">>), Text(<<"l">>), Text(<<"r">>), Text(<<"b">>),
            Text(<<"e">>), "Math", "Sets", "Hard")

\* The Correct Answer is an empty cell.
RowNoAnswer ==
    MakeRow(5, Text(<<"p">>), Text(<<"l">>), Text(<<"r">>), Text(<<"b">>),
            NaN, "Math", "Sets", "Hard")

RowPool ==
    { RowGood, RowNoOptionC, RowBlankOptionC, RowBadAnswer, RowNoAnswer }

RowSeqs == UNION { [1 .. n -> RowPool] : n \in 0 .. MaxRows }

\* The published sheet: whether the fetch succeeds, the (trimmed) header
\* names, and the data rows.
Sheets ==
    { [fetch_ok |-> TRUE, columns |-> cols, rows |-> rows] :
        cols \in { required_columns, required_columns \ {"Option C"} },
        rows \in RowSeqs }
    \cup { [fetch_ok |-> FALSE, columns |-> {}, rows |-> << >>] }

\* What a handler shows: st.error / st.warning text, n the number it quotes.
Msg(text, n) == [text |-> text, n |-> n]

NoMsg == Msg("", 0)

options_of(q) == [i \in 1 .. 4 |-> strip(str(q[OptionColumns[i]]))]

\* all(options): every option string is non-empty.
all_options(options) == \A i \in 1 .. Len(options) : options[i] # << >>

\* The validation loop.  raised says row['Correct Answer'].strip() was
\* called on a NaN cell, which throws AttributeError.
RECURSIVE validate_rows(_, _)
validate_rows(rows, valid_questions) ==
    IF rows = << >> THEN [raised |-> FALSE, valid_questions |-> valid_questions]
    ELSE
        LET row == Head(rows)
            options == options_of(row)
        IN  IF ~(all_options(options) /\ Len(options) = 4)
            THEN validate_rows(Tail(rows), valid_questions)
            ELSE IF row["Correct Answer"].nan
            THEN [raised |-> TRUE, valid_questions |-> valid_questions]
            ELSE IF upper(strip(row["Correct Answer"].s)) \in
                        { <<"A">>, <<"B">>, <<"C">>, <<"D">> }
            THEN validate_rows(Tail(rows), Append(valid_questions, row))
            ELSE validate_rows(Tail(rows), valid_questions)

\* load_valid_questions(): the list it returns and the message it shows.
load_valid_questions(sheet) ==
    IF ~sheet.fetch_ok
    THEN [questions |-> << >>, msg |-> Msg("Data loading failed", 0)]
    ELSE LET missing_cols == required_columns \ sheet.columns
         IN  IF missing_cols # {}
             THEN [questions |-> << >>,
                   msg |-> Msg("Missing columns", Cardinality(missing_cols))]
             ELSE LET v == validate_rows(sheet.rows, << >>)
                  IN  IF v.raised
                      THEN [questions |-> << >>, msg |-> Msg("Data loading failed", 0)]
                      ELSE IF Len(v.valid_questions) < Len(sheet.rows)
                      THEN [questions |-> v.valid_questions,
                            msg |-> Msg("Skipped",
                                        Len(sheet.rows) - Len(v.valid_questions))]
                      ELSE [questions |-> v.valid_questions, msg |-> NoMsg]

(* ------------------------------ the state ----------------------------- *)

VARIABLES
    sheet,             \* the published sheet behind SHEET_URL
    authenticated,     \* st.session_state.authenticated
    test_started,      \* st.session_state.test_started
    current_question,  \* st.session_state.current_question
    user_answers,      \* st.session_state.user_answers
    username,          \* st.session_state.username
    start_time,        \* st.session_state.start_time
    questions,         \* st.session_state.questions
    radio,             \* the value of st.radio read by the last press of Next
    msg                \* the message shown by the last handler

vars ==
    << sheet, authenticated, test_started, current_question, user_answers,
       username, start_time, questions, radio, msg >>

session ==
    << authenticated, test_started, current_question, user_answers,
       username, start_time, questions >>

\* Python's None, as an optional value: << >> is None, <<v>> is v.
None == << >>

EmptyAnswers == [id \in {} |-> None]

\* init_session() on a session state without keys.
init_session ==
    /\ authenticated = FALSE
    /\ test_started = FALSE
    /\ current_question = 0
    /\ user_answers = EmptyAnswers
    /\ username = None
    /\ start_time = None
    /\ questions = << >>

Init ==
    /\ sheet \in Sheets
    /\ init_session
    /\ radio = None
    /\ msg = NoMsg

(* ------------------------------ analysis ------------------------------ *)

\* A float that is a quotient of integers, kept exact: num / den, den > 0.
Frac(num, den) == [num |-> num, den |-> den]

\* A variant that compares with the Correct Answer cell as it is written.
answer_is_correct_raw(answers, q) ==
    /\ q["Question ID"] \in DOMAIN answers
    /\ answers[q["Question ID"]].selected = q["Correct Answer"].s

\* ans.get('selected') == q['Correct Answer'].strip().upper()
answer_is_correct(answers, q) ==
    /\ q["Question ID"] \in DOMAIN answers
    /\ answers[q["Question ID"]].selected = upper(strip(q["Correct Answer"].s))

\* A variant of the loop that passes over the questions not answered yet.
RECURSIVE analyze_loop_answered_only(_, _, _, _)
analyze_loop_answered_only(qs, analysis, tag_name, answers) ==
    IF qs = << >> THEN analysis
    ELSE
        LET q == Head(qs)
            tag_value == IF tag_name \in DOMAIN q THEN q[tag_name] ELSE "N/A"
            id == q["Question ID"]
            old == IF tag_value \in DOMAIN analysis
                   THEN analysis[tag_value]
                   ELSE [total |-> 0, correct |-> 0, time |-> 0]
        IN  IF id \notin DOMAIN answers
            THEN analyze_loop_answered_only(Tail(qs), analysis, tag_name, answers)
            ELSE
                LET new == [total |-> old.total + 1,
                            time |-> old.time + answers[id].time_taken,
                            correct |-> old.correct +
                                (IF answers[id].selected
                                        = upper(strip(q["Correct Answer"].s))
                                 THEN 1 ELSE 0)]
                IN  analyze_loop_answered_only(
                        Tail(qs), (tag_value :> new) @@ analysis, tag_name, answers)

\* The loop of analyze_tag over the questions, in order.
RECURSIVE analyze_loop(_, _, _, _)
analyze_loop(qs, analysis, tag_name, answers) ==
    IF qs = << >> THEN analysis
    ELSE
        LET q == Head(qs)
            tag_value == IF tag_name \in DOMAIN q THEN q[tag_name] ELSE "N/A"
            id == q["Question ID"]
            answered == id \in DOMAIN answers
            old == IF tag_value \in DOMAIN analysis
                   THEN analysis[tag_value]
                   ELSE [total |-> 0, correct |-> 0, time |-> 0]
            hit == answer_is_correct(answers, q)
            new == [total |-> old.total + 1,
                    time |-> old.time + (IF answered THEN answers[id].time_taken ELSE 0),
                    correct |-> old.correct + (IF hit THEN 1 ELSE 0)]
        IN  analyze_loop(Tail(qs), (tag_value :> new) @@ analysis, tag_name, answers)

\* analyze_tag on a list of questions and an answer map.
analyze_tag_of(qs, answers, tag_name) ==
    LET analysis == analyze_loop(qs, [t \in {} |-> 0], tag_name, answers)
    IN  [tag \in DOMAIN analysis |->
            LET stats == analysis[tag]
            IN  [total |-> stats.total,
                 correct |-> stats.correct,
                 time |-> stats.time,
                 accuracy |-> IF stats.total > 0
                              THEN Frac(stats.correct * 100, stats.total)
                              ELSE Frac(0, 1),
                 avg_time |-> IF stats.total > 0
                              THEN Frac(stats.time, stats.total)
                              ELSE Frac(0, 1)]]

\* analyze_tag(tag_name) on the session state.
analyze_tag(tag_name) == analyze_tag_of(questions, user_answers, tag_name)

\* The time chart of show_results reads user_answers[q['Question ID']] for
\* every question; it throws KeyError when one is missing.
show_results_raises ==
    \E i \in 1 .. Len(questions) :
        questions[i]["Question ID"] \notin DOMAIN user_answers

(* ------------------------------ handlers ------------------------------ *)

Usernames == { "user1", "guest" }

Passwords == { "password1", "letmein" }

\* What the user can hand to the Next button as the chosen option.
Selections ==
    { <<"p">>, <<"l", " ">>, <<"r">>, <<"b">>, <<"n", "a", "n">> }

\* A variant of the form that keeps the typed name before checking it.
authenticate_sets_username(user, password) ==
    /\ ~authenticated
    /\ username' = <<user>>
    /\ IF user = "user1" /\ password = "password1"
       THEN /\ authenticated' = TRUE
            /\ questions' = load_valid_questions(sheet).questions
            /\ msg' = load_valid_questions(sheet).msg
            /\ UNCHANGED << test_started, current_question, user_answers, start_time >>
       ELSE /\ msg' = Msg("Invalid credentials", 0)
            /\ UNCHANGED << authenticated, test_started, current_question,
                            user_answers, start_time, questions >>
    /\ UNCHANGED << sheet, radio >>

\* The Login button of the form.
authenticate(user, password) ==
    /\ ~authenticated
    /\ IF user = "user1" /\ password = "password1"
       THEN /\ authenticated' = TRUE
            /\ username' = <<user>>
            /\ questions' = load_valid_questions(sheet).questions
            /\ msg' = load_valid_questions(sheet).msg
            /\ UNCHANGED << test_started, current_question, user_answers, start_time >>
       ELSE /\ msg' = Msg("Invalid credentials", 0)
            /\ UNCHANGED session
    /\ UNCHANGED << sheet, radio >>

\* A variant of the Start Test button that is drawn on an empty bank too.
StartTest_unguarded(now) ==
    /\ authenticated
    /\ ~test_started
    /\ test_started' = TRUE
    /\ start_time' = <<now>>
    /\ msg' = NoMsg
    /\ UNCHANGED << sheet, authenticated, current_question, user_answers,
                    username, questions, radio >>

\* The Start Test button; now is the reading of time.time().
StartTest(now) ==
    /\ authenticated
    /\ questions # << >>
    /\ ~test_started
    /\ test_started' = TRUE
    /\ start_time' = <<now>>
    /\ msg' = NoMsg
    /\ UNCHANGED << sheet, authenticated, current_question, user_answers,
                    username, questions, radio >>

\* The keys display_question reads from the question.
DisplayKeys ==
    { "Question Text", "Option A", "Option B", "Option C", "Option D",
      "Question ID", "Correct Answer" }

\* A variant that finds the last position holding x.
index_last(options, x) ==
    CHOOSE i \in 0 .. Len(options) - 1 :
        /\ options[i + 1] = x
        /\ \A j \in i + 1 .. Len(options) - 1 : options[j + 1] # x

\* options.index(x): the first position holding x, counted from 0.
index(options, x) ==
    CHOOSE i \in 0 .. Len(options) - 1 :
        /\ options[i + 1] = x
        /\ \A j \in 0 .. i - 1 : options[j + 1] # x

\* except KeyError: the page reports the format and moves on.
invalid_format ==
    /\ current_question' = current_question + 1
    /\ msg' = Msg("Invalid question format", 0)
    /\ UNCHANGED << authenticated, test_started, user_answers,
                    username, start_time, questions >>

\* A variant of the ValueError branch that moves on as the KeyError one does.
invalid_selection_advances ==
    /\ current_question' = current_question + 1
    /\ msg' = Msg("Invalid selection", 0)
    /\ UNCHANGED << authenticated, test_started, user_answers,
                    username, start_time, questions >>

\* except ValueError: the page reports the selection and returns.
invalid_selection ==
    /\ msg' = Msg("Invalid selection", 0)
    /\ UNCHANGED session

\* A variant that files the record under the index of the question.
record_answer_by_index(q, selected_option, now1, now2) ==
    LET record ==
            [selected |-> selected_option,
             correct |-> upper(strip(q["Correct Answer"].s)),
             time_taken |-> now1 - start_time[1]]
    IN  /\ user_answers' = (current_question :> record) @@ user_answers
        /\ current_question' = current_question + 1
        /\ start_time' = <<now2>>
        /\ msg' = NoMsg
        /\ UNCHANGED << authenticated, test_started, username, questions >>

\* The answer is stored, the index advances and the timestamp is reset.
record_answer(q, selected_option, now1, now2) ==
    LET record ==
            [selected |-> selected_option,
             correct |-> upper(strip(q["Correct Answer"].s)),
             time_taken |-> now1 - start_time[1]]
    IN  /\ user_answers' = (q["Question ID"] :> record) @@ user_answers
        /\ current_question' = current_question + 1
        /\ start_time' = <<now2>>
        /\ msg' = NoMsg
        /\ UNCHANGED << authenticated, test_started, username, questions >>

\* The Next button of display_question(q) with the radio value answer;
\* now1 and now2 are the two readings of time.time().
display_question(answer, now1, now2) ==
    /\ authenticated
    /\ questions # << >>
    /\ test_started
    /\ current_question < Len(questions)
    /\ LET q == questions[current_question + 1]
       IN  IF ~(DisplayKeys \subseteq DOMAIN q)
           THEN invalid_format
           ELSE LET options == options_of(q)
                IN  IF \A i \in 1 .. Len(options) : options[i] # strip(answer)
                    THEN invalid_selection
                    ELSE record_answer(q, chr65[index(options, strip(answer)) + 1],
                                       now1, now2)
    /\ radio' = <<answer>>
    /\ UNCHANGED sheet

\* A variant of the Retake Test button that resets the progress only.
Retake_progress_only ==
    /\ authenticated
    /\ questions # << >>
    /\ test_started
    /\ current_question >= Len(questions)
    /\ test_started' = FALSE
    /\ current_question' = 0
    /\ user_answers' = EmptyAnswers
    /\ start_time' = None
    /\ radio' = None
    /\ msg' = NoMsg
    /\ UNCHANGED << sheet, authenticated, username, questions >>

\* The Retake Test button, drawn after show_results() has returned:
\* st.session_state.clear() and init_session().
Retake ==
    /\ authenticated
    /\ questions # << >>
    /\ test_started
    /\ current_question >= Len(questions)
    /\ ~show_results_raises
    /\ authenticated' = FALSE
    /\ test_started' = FALSE
    /\ current_question' = 0
    /\ user_answers' = EmptyAnswers
    /\ username' = None
    /\ start_time' = None
    /\ questions' = << >>
    /\ radio' = None
    /\ msg' = NoMsg
    /\ UNCHANGED sheet

\* A run of main() in which no button is pressed: the page is drawn again.
Rerun ==
    /\ msg' = IF authenticated /\ questions = << >>
               THEN Msg("No valid questions found", 0)
               ELSE NoMsg
    /\ UNCHANGED << sheet, session, radio >>

Login == \E user \in Usernames, password \in Passwords : authenticate(user, password)

Start == \E now \in Clock : StartTest(now)

PressNext ==
    \E answer \in Selections, now1 \in Clock, now2 \in Clock :
        display_question(answer, now1, now2)

Next == Login \/ Start \/ PressNext \/ Retake \/ Rerun

Spec == Init /\ [][Next]_vars

(* --------------------------- page predicates -------------------------- *)

InProgress ==
    authenticated /\ questions # << >> /\ test_started
        /\ current_question < Len(questions)

ResultsPage ==
    authenticated /\ questions # << >> /\ test_started
        /\ current_question >= Len(questions)

\* The trimmed, uppercased Correct Answer of a question of the bank.
CorrectLetter(q) == upper(strip(q["Correct Answer"].s))

\* The positions 1..4 whose option equals the selection, both trimmed.
Matching(q, answer) ==
    { i \in 1 .. 4 : strip(str(q[OptionColumns[i]])) = strip(answer) }

RECURSIVE SumOver(_, _)
\* The sum of f[x] over the finite set S.
SumOver(S, f) ==
    IF S = {} THEN 0
    ELSE LET x == CHOOSE y \in S : TRUE
         IN  f[x] + SumOver(S \ {x}, f)

(* -------------------------------- C1 ---------------------------------- *)

\* A step that is more than a new drawing of the page.
Acts == session' # session \/ radio' # radio \/ msg' # NoMsg

\* C1: pressing Next in an in-progress state with a selection that equals,
\* after trimming, one of the four options of the current question raises
\* current_question by exactly 1 and stores one AnswerRecord under the
\* question's identifier, leaving the other records alone; its selected
\* letter is the A-D position of the (first) matching option and its
\* correct letter is the trimmed, uppercased Correct Answer.  Pressing Next
\* with a selection that matches no option leaves current_question and the
\* answer map unchanged.
C1_NextContract ==
    [][ (InProgress /\ Acts) =>
            LET q == questions[current_question + 1]
                id == q["Question ID"]
                m == Matching(q, radio'[1])
            IN  /\ radio' # None
                /\ IF m # {}
                   THEN /\ current_question' = current_question + 1
                        /\ DOMAIN user_answers' = DOMAIN user_answers \cup {id}
                        /\ \A k \in DOMAIN user_answers \ {id} :
                               user_answers'[k] = user_answers[k]
                        /\ user_answers'[id].selected =
                               chr65[CHOOSE i \in m : \A j \in m : i <= j]
                        /\ user_answers'[id].correct = CorrectLetter(q)
                   ELSE /\ current_question' = current_question
                        /\ user_answers' = user_answers ]_vars

\* The first question was answered with its padded Option B and Next was
\* then pressed on the second question with a selection that is no option.
C1_Witness ==
    /\ Len(questions) = 2
    /\ questions[1] = RowGood
    /\ current_question = 1
    /\ user_answers = (1 :> user_answers[1])
    /\ user_answers[1].selected = <<"B">>
    /\ user_answers[1].correct = <<"B">>
    /\ radio = << <<"r">> >>
    /\ msg = Msg("Invalid selection", 0)

(* -------------------------------- C2 ---------------------------------- *)

\* C2 as claimed: a step that leaves the results page resets the answer map
\* to empty and current_question to 0 and keeps the questions of the session.
C2_RetakeKeepsBank ==
    [][ (ResultsPage /\ session' # session) =>
            /\ user_answers' = EmptyAnswers
            /\ current_question' = 0
            /\ questions' = questions ]_vars

\* C2 amended: a step that leaves the results page resets the answer map to
\* empty and current_question to 0, and clears the rest of the session with
\* them: the question list becomes empty and the user is logged out.
C2_RetakeClearsSession ==
    [][ (ResultsPage /\ session' # session) =>
            /\ user_answers' = EmptyAnswers
            /\ current_question' = 0
            /\ questions' = << >>
            /\ authenticated' = FALSE
            /\ test_started' = FALSE
            /\ username' = None
            /\ start_time' = None ]_vars

\* The results page of a two-question test is showing, with the Retake
\* button drawn.
C2_Witness ==
    /\ ResultsPage
    /\ Len(questions) = 2
    /\ current_question = 2
    /\ ENABLED Retake

(* -------------------------------- C3 ---------------------------------- *)

\* C3: for every tag dimension, the totals of analyze_tag summed over the
\* tag values equal the number of questions of the bank, whichever
\* questions have been answered.
C3_TotalsSumToBank ==
    \A tag_name \in TagNames :
        LET analysis == analyze_tag(tag_name)
        IN  SumOver(DOMAIN analysis, [t \in DOMAIN analysis |-> analysis[t].total])
                = Len(questions)

\* A started test on two questions with different sub-topics, one answered.
C3_Witness ==
    /\ test_started
    /\ Len(questions) = 2
    /\ questions[1]["Sub- Topic"] # questions[2]["Sub- Topic"]
    /\ current_question = 1
    /\ Cardinality(DOMAIN user_answers) = 1
    /\ Cardinality(DOMAIN analyze_tag("Sub- Topic")) = 2

(* -------------------------------- C4 ---------------------------------- *)

\* C4: every tag aggregate has 0 <= accuracy <= 100 and avg_time >= 0, both
\* 0 when total is 0, and every stored time_taken is >= 0.
C4_RangesAndClamp ==
    /\ \A tag_name \in TagNames :
         LET analysis == analyze_tag(tag_name)
         IN  \A t \in DOMAIN analysis :
                /\ analysis[t].accuracy.num >= 0
                /\ analysis[t].accuracy.num <= 100 * analysis[t].accuracy.den
                /\ analysis[t].avg_time.num >= 0
                /\ analysis[t].total = 0 =>
                      (analysis[t].accuracy.num = 0 /\ analysis[t].avg_time.num = 0)
    /\ \A id \in DOMAIN user_answers : user_answers[id].time_taken >= 0

(* -------------------------------- C5 ---------------------------------- *)

\* An option cell that is missing or white space only.
EmptyOption(cell) == cell.nan \/ strip(cell.s) = << >>

\* A row that passes the validation as the loader's contract states it.
RowIsValid(row) ==
    /\ \A i \in 1 .. 4 : ~EmptyOption(row[OptionColumns[i]])
    /\ ~row["Correct Answer"].nan
    /\ upper(strip(row["Correct Answer"].s)) \in { <<"A">>, <<"B">>, <<"C">>, <<"D">> }

\* C5: with all required columns present, a defective row never fails the
\* load: the bank of a logged-in session is the valid rows in source order,
\* and the number of skipped rows reported is rows read minus rows kept.
C5_DefectiveRowsSkipped ==
    (authenticated /\ sheet.fetch_ok /\ required_columns \subseteq sheet.columns) =>
        /\ questions = SelectSeq(sheet.rows, RowIsValid)
        /\ msg.text = "Skipped" => msg.n = Len(sheet.rows) - Len(questions)
        /\ msg.text # "Data loading failed"

(* -------------------------------- C6 ---------------------------------- *)

\* C6: a login whose load meets a missing column or fails leaves the bank
\* empty, and whenever the bank is empty the test is not started and the
\* Start button cannot be pressed.
C6_NoStartOnEmptyBank ==
    /\ (authenticated /\ (~sheet.fetch_ok \/ ~(required_columns \subseteq sheet.columns)))
          => questions = << >>
    /\ (authenticated /\ msg.text \in {"Missing columns", "Data loading failed"})
          => questions = << >>
    /\ questions = << >> => (~test_started /\ ~ENABLED Start)

\* A user logged in against a sheet that lacks a required column.
C6_Witness ==
    /\ authenticated
    /\ questions = << >>
    /\ msg.text = "Missing columns"
    /\ sheet.rows # << >>

(* -------------------------------- C7 ---------------------------------- *)

\* C7: in every step in which current_question increases it increases by
\* exactly 1, and an AnswerRecord for the question at the old index is
\* stored in that step.
C7_AdvanceRecords ==
    [][ current_question' > current_question =>
            LET q == questions[current_question + 1]
                id == q["Question ID"]
            IN  /\ current_question' = current_question + 1
                /\ id \in DOMAIN user_answers'
                /\ user_answers'[id].correct = CorrectLetter(q)
                /\ (user_answers'[id].time_taken + start_time[1]) \in Clock ]_vars

\* Two different questions have been answered one after the other.
C7_Witness ==
    /\ current_question = 2
    /\ Len(questions) = 2
    /\ Cardinality(DOMAIN user_answers) = 2

(* -------------------------------- C8 ---------------------------------- *)

\* The positions of the questions whose tag has the value v.
WithTag(tag_name, v) == { i \in 1 .. Len(questions) : questions[i][tag_name] = v }

\* C8: for every tag dimension the result of analyze_tag has one entry per
\* tag value of the bank, with total the number of questions of that value,
\* correct the number of them whose AnswerRecord selects the question's
\* correct letter, and time the sum of time_taken over their AnswerRecords;
\* a question without an AnswerRecord adds 1 to total and nothing else.
C8_MatchesReference ==
    \A tag_name \in TagNames :
        LET analysis == analyze_tag(tag_name)
        IN  /\ DOMAIN analysis =
                  { questions[i][tag_name] : i \in 1 .. Len(questions) }
            /\ \A v \in DOMAIN analysis :
                  LET Q == WithTag(tag_name, v)
                      A == { i \in Q : questions[i]["Question ID"] \in DOMAIN user_answers }
                  IN  /\ analysis[v].total = Cardinality(Q)
                      /\ analysis[v].correct =
                            Cardinality({ i \in A :
                                user_answers[questions[i]["Question ID"]].selected
                                    = CorrectLetter(questions[i]) })
                      /\ analysis[v].time =
                            SumOver(A, [i \in A |->
                                user_answers[questions[i]["Question ID"]].time_taken])

\* Two questions of one subject: the first, whose answer cell is padded
\* lower case, answered right, the second not answered yet.
C8_Witness ==
    /\ Len(questions) = 2
    /\ questions[1] = RowGood
    /\ questions[2] = RowNoOptionC
    /\ current_question = 1
    /\ user_answers[1].selected = <<"B">>
    /\ user_answers[1].time_taken = 1
    /\ analyze_tag("Subject")["Geo"].total = 2
    /\ analyze_tag("Subject")["Geo"].correct = 1

(* -------------------------------- C9 ---------------------------------- *)

\* C9: on the results page the answer map holds a record for the identifier
\* of every question of the bank.
C9_ResultsHaveAllAnswers ==
    (test_started /\ current_question >= Len(questions)) =>
        \A i \in 1 .. Len(questions) :
            questions[i]["Question ID"] \in DOMAIN user_answers

\* The results page of a test on two questions with different identifiers.
C9_Witness ==
    /\ test_started
    /\ Len(questions) = 2
    /\ questions[1]["Question ID"] # questions[2]["Question ID"]
    /\ current_question >= Len(questions)

(* -------------------------------- C10 --------------------------------- *)

WellFormed ==
    /\ test_started => (authenticated /\ questions # << >> /\ start_time # None)
    /\ authenticated => username = <<"user1">>
    /\ current_question \in 0 .. Len(questions)
    /\ (current_question > 0 \/ DOMAIN user_answers # {}) => test_started

\* C10: the session is always well-formed, and a failed login changes no
\* session field.
C10_SessionWellFormed ==
    /\ []WellFormed
    /\ [][ msg'.text = "Invalid credentials" => UNCHANGED session ]_vars

\* A logged-in user is in the middle of a started test, one answer given.
C10_Witness ==
    /\ InProgress
    /\ username = <<"user1">>
    /\ current_question = 1
    /\ DOMAIN user_answers # {}
    /\ start_time # None

====
